---- MODULE Spec2Model ----
(***************************************************************************)
(* Model of the global layer scheduler, LayerOrderOptimizer::populateSteps *)
(* (src/src/optimizers/layer_order_optimizer.cpp).                         *)
(*                                                                         *)
(* A part is a record [id, steps, dirty]; a step pair is identified by the *)
(* part id and its index in the part's sequence (0-based, as in the        *)
(* source); dirty is the set of indices of the part's dirty step pairs.    *)
(* A step carries the offset of its slicing plane along the stacking       *)
(* direction and its layer height.  Lengths are integers and layer heights *)
(* are even, so that layer_height / 2 is exact.  ByHeight assumes (source  *)
(* line 42) that all parts were sliced with the same, non-rotating plane   *)
(* angle, so a plane is modelled by its offset along that direction.       *)
(*                                                                         *)
(* Part, Step, Plane, GlobalLayer and MathUtils are not part of the        *)
(* sources at hand; they are modelled after their description: the         *)
(* distance of a plane is signed, Plane::isEqual is inclusive at the       *)
(* tolerance, and GlobalLayer::addStepPair requires that the part has no   *)
(* entry in the layer yet.                                                  *)
(*                                                                         *)
(* One action is one iteration of a loop of populateSteps that builds one  *)
(* GlobalLayer; the loops over build_parts inside an iteration are         *)
(* operators that visit the parts in list order.                           *)
(***************************************************************************)
EXTENDS Integers, Sequences, FiniteSets, TLC

\* ---------------------------------------------------------------- bounds
MaxParts == 3    \* at most this many parts in build_parts
MaxTotal == 3    \* at most this many step pairs over all parts
MaxPlane == 3    \* slicing-plane offsets are 0..MaxPlane
MaxTol   == 2    \* grouping tolerances are 0..MaxTol

\* Layer heights a step's settings can carry (even, so that the half is exact).
LayerHeights == {2}

PlaneOffsets == 0..MaxPlane
Tolerances   == 0..MaxTol
StepValues   == [plane : PlaneOffsets, layerHeight : LayerHeights]

\* The LayerOrdering enumeration.
OrderMethods == {"kByHeight", "kByLayerNumber", "kByPart"}

\* A kLayerOrdering setting that is none of the enumeration's three values.
kInvalid == "kInvalid"

\* What Q_ASSERT(false) does: it ends the program where QT_NO_DEBUG is not
\* defined, and is compiled to nothing where it is (release builds).
AssertOutcomes == {"fatal", "continues"}

\* QUuid(): the null part id.
NullId == 0

VARIABLES
    build_parts,               \* the QVector of parts: Seq of [id, steps, dirty]
    pc,                        \* "idle" | "byHeight" | "byLayerNumber" | "byPart" | "done" |
                               \* "stepDone" | "aborted" | "fatal"
    order_method,              \* the kLayerOrdering setting read by the call
    layer_grouping_tolerance,  \* the kLayerGroupingTolerance setting (read by ByHeight only)
    current_layer,             \* ByHeight: part id -> cursor
    steps_left,                \* ByHeight: loop condition
    num_global_steps,          \* ByHeight: next sequence index
    part_with_min_plane,       \* ByHeight: part found by the last minimum search
    min_plane,                 \* ByHeight: its shifted plane
    min_dist,                  \* ByHeight: its distance along the stacking direction
    max_steps,                 \* ByLayerNumber / ByPart: max_steps
    step,                      \* ByLayerNumber: loop variable
    part_pos,                  \* ByPart: position of the outer range-for in build_parts (1-based)
    s,                         \* ByPart: inner loop variable
    s_max,                     \* ByPart: the inner (shadowing) max_steps
    num_g_steps,               \* ByPart: next sequence index
    new_g_layer,               \* populateStep: the layer built / returned
    previous,                  \* caller: the settings, parts and schedule of an earlier call
    call_parts,                \* build_parts as it was at the entry of the running call
    part_it,                   \* position of a range-for over build_parts (1-based), where
                               \* the loop is taken part by part
    layer_under_construction,  \* the new_global_layer being filled, where the loop is
                               \* taken part by part
    global_layers,             \* the list being built / returned
    widget,                    \* PrinterControlWidget: m_xInput, m_yInput, m_zInput and the
                               \* lines of m_logDisplay
    communicator,              \* PrinterCommunicator: the commands received and the
                               \* printerResponse signals emitted
    loader                     \* MeshLoader: the file it was built for, the result of
                               \* LoadMeshes and the signals emitted by run()

vars == <<build_parts, pc, order_method, layer_grouping_tolerance, current_layer,
          steps_left, num_global_steps, part_with_min_plane, min_plane, min_dist,
          max_steps, step, part_pos, s, s_max, num_g_steps, new_g_layer, previous,
          call_parts, part_it, layer_under_construction, global_layers, widget,
          communicator, loader>>

widget_vars == <<widget, communicator, loader>>

min_vars == <<part_with_min_plane, min_plane, min_dist>>

locals == <<current_layer, steps_left, num_global_steps, min_vars, max_steps, step,
            part_pos, s, s_max, num_g_steps, new_g_layer, part_it, layer_under_construction>>

\* The state of the layer order optimizer and of its caller.
optimizer_vars == <<build_parts, pc, order_method, layer_grouping_tolerance, locals,
                    previous, call_parts, global_layers>>

\* ------------------------------------------------------------- Part
countStepPairs(part) == Len(part.steps)

\* getStepPair(i) with the source's 0-based index.
getStepPair(part, i) == part.steps[i + 1]

Max(a, b) == IF a >= b THEN a ELSE b

RECURSIVE SumSteps(_, _)
SumSteps(parts, n) ==
    IF n = 0 THEN 0 ELSE SumSteps(parts, n - 1) + countStepPairs(parts[n])

TotalSteps(parts) == SumSteps(parts, Len(parts))

\* Mutant of MaxSteps: the minimum of the counts for the maximum.
RECURSIVE MaxSteps_Min(_, _)
MaxSteps_Min(parts, n) ==
    IF n = 0 THEN 0
    ELSE IF n = 1 THEN countStepPairs(parts[1])
    ELSE LET m == MaxSteps_Min(parts, n - 1)
         IN  IF countStepPairs(parts[n]) < m THEN countStepPairs(parts[n]) ELSE m

RECURSIVE MaxSteps(_, _)
MaxSteps(parts, n) ==
    IF n = 0 THEN 0 ELSE Max(MaxSteps(parts, n - 1), countStepPairs(parts[n]))

\* ------------------------------------------------------------- Plane
\* Plane::shiftAlongNormal(layer_height / 2) on getSlicingPlane().
ShiftedPlane(st) == st.plane + st.layerHeight \div 2

\* MathUtils::linePlaneIntersection(origin, stacking direction, plane).distance():
\* the signed distance of the plane from the origin along the stacking direction.
PlaneDist(plane) == plane

Abs(x) == IF x < 0 THEN -x ELSE x

\* Mutant of isEqual: exclusive at the tolerance boundary.
isEqual_Strict(plane, other, tolerance) == Abs(plane - other) < tolerance

\* Plane::isEqual(other, tolerance): inclusive at the tolerance boundary.
isEqual(plane, other, tolerance) == Abs(plane - other) <= tolerance

\* The element of a one-element set; {F(x) : x \in {e}} evaluates e once.
Only(S) == CHOOSE x \in S : TRUE

\* ------------------------------------------------------------- GlobalLayer
\* A GlobalLayer is [index, step_pairs]; step_pairs records the addStepPair
\* calls in order, each entry [part |-> id, step |-> index in the part].
NewGlobalLayer(index) == [index |-> index, step_pairs |-> <<>>]

HasPart(layer, id) == \E k \in 1..Len(layer.step_pairs) : layer.step_pairs[k].part = id

addStepPair(layer, id, i) ==
    [layer EXCEPT !.step_pairs = Append(@, [part |-> id, step |-> i])]

\* A null QSharedPointer<GlobalLayer>: no layer.
NoLayer == [index |-> -1, step_pairs |-> <<>>]

\* ------------------------------------------------------------- ByHeight
\* State of the minimum search before the first active part is seen:
\* part_with_min_plane is the null id; min_plane and min_dist are not read.
NoMin == [part |-> NullId, plane |-> 0, dist |-> 0]

\* Mutant of FindMin: the comparison with min_dist is missing - the search
\* keeps the first active part of the list.
RECURSIVE FindMin_First(_, _, _)
FindMin_First(parts, cur, n) ==
    IF n = 0 THEN NoMin
    ELSE LET m       == FindMin_First(parts, cur, n - 1)
             part    == parts[n]
             part_id == part.id
         IN  IF cur[part_id] >= countStepPairs(part) THEN m
             ELSE LET current_step == getStepPair(part, cur[part_id])
                      layer_plane  == ShiftedPlane(current_step)
                      layer_dist   == PlaneDist(layer_plane)
                  IN  IF m.part = NullId
                      THEN [part |-> part_id, plane |-> layer_plane, dist |-> layer_dist]
                      ELSE m

\* Mutant of FindMin: ">" for "<" - the search keeps the highest plane.
RECURSIVE FindMin_Max(_, _, _)
FindMin_Max(parts, cur, n) ==
    IF n = 0 THEN NoMin
    ELSE LET m       == FindMin_Max(parts, cur, n - 1)
             part    == parts[n]
             part_id == part.id
         IN  IF cur[part_id] >= countStepPairs(part) THEN m
             ELSE LET current_step == getStepPair(part, cur[part_id])
                      layer_plane  == ShiftedPlane(current_step)
                      layer_dist   == PlaneDist(layer_plane)
                  IN  IF m.part = NullId \/ layer_dist > m.dist
                      THEN [part |-> part_id, plane |-> layer_plane, dist |-> layer_dist]
                      ELSE m

\* Mutant of MinVisit: "<=" for "<" - among equal distances the search keeps
\* the last part of the list.
MinVisit_LastTie(part, cur, m) ==
    LET part_id == part.id
    IN  IF cur[part_id] >= countStepPairs(part) THEN m
        ELSE LET current_step == getStepPair(part, cur[part_id])
                 layer_plane  == ShiftedPlane(current_step)
                 layer_dist   == PlaneDist(layer_plane)
             IN  IF m.part = NullId \/ layer_dist <= m.dist
                 THEN [part |-> part_id, plane |-> layer_plane, dist |-> layer_dist]
                 ELSE m

\* The body of the minimum search (source lines 75-98) for one part; m is
\* [part, plane, dist]: part_with_min_plane, min_plane and min_dist so far.
MinVisit(part, cur, m) ==
    LET part_id == part.id
    IN  IF cur[part_id] >= countStepPairs(part) THEN m
        ELSE LET current_step == getStepPair(part, cur[part_id])
                 layer_plane  == ShiftedPlane(current_step)
                 layer_dist   == PlaneDist(layer_plane)
             IN  IF m.part = NullId \/ layer_dist < m.dist
                 THEN [part |-> part_id, plane |-> layer_plane, dist |-> layer_dist]
                 ELSE m

\* The minimum search (source lines 73-99) over the first n parts of the list,
\* in list order.
RECURSIVE FindMin(_, _, _)
FindMin(parts, cur, n) ==
    IF n = 0 THEN NoMin
    ELSE Only({MinVisit(parts[n], cur, m) : m \in {FindMin(parts, cur, n - 1)}})

\* Mutant of GroupLoop: the ++current_layer[part_id] is missing.
RECURSIVE GroupLoop_NoAdvance(_, _, _, _, _)
GroupLoop_NoAdvance(parts, g0, the_min_plane, tolerance, n) ==
    IF n = 0 THEN g0
    ELSE LET g       == GroupLoop_NoAdvance(parts, g0, the_min_plane, tolerance, n - 1)
             part    == parts[n]
             part_id == part.id
         IN  IF g.cur[part_id] >= countStepPairs(part) THEN g
             ELSE LET current_step == getStepPair(part, g.cur[part_id])
                      layer_plane  == ShiftedPlane(current_step)
                  IN  IF isEqual(layer_plane, the_min_plane, tolerance)
                      THEN [g EXCEPT !.layer = addStepPair(g.layer, part_id, g.cur[part_id]),
                                     !.cur   = g.cur,
                                     !.ok    = g.ok /\ ~HasPart(g.layer, part_id)]
                      ELSE g

\* Mutant of GroupLoop: the isEqual test is missing - every active part is
\* added to the layer.
RECURSIVE GroupLoop_All(_, _, _, _, _)
GroupLoop_All(parts, g0, the_min_plane, tolerance, n) ==
    IF n = 0 THEN g0
    ELSE LET g       == GroupLoop_All(parts, g0, the_min_plane, tolerance, n - 1)
             part    == parts[n]
             part_id == part.id
         IN  IF g.cur[part_id] >= countStepPairs(part) THEN g
             ELSE [g EXCEPT !.layer = addStepPair(g.layer, part_id, g.cur[part_id]),
                            !.cur   = [g.cur EXCEPT ![part_id] = @ + 1],
                            !.ok    = g.ok /\ ~HasPart(g.layer, part_id)]

\* Mutant of GroupLoop: "while" for "if" - a part keeps contributing steps to
\* the layer as long as its current plane equals the minimum plane.
RECURSIVE TakeWhileEqual(_, _, _, _)
TakeWhileEqual(part, g, the_min_plane, tolerance) ==
    IF g.cur[part.id] >= countStepPairs(part) THEN g
    ELSE IF isEqual(ShiftedPlane(getStepPair(part, g.cur[part.id])), the_min_plane, tolerance)
         THEN TakeWhileEqual(part,
                  [g EXCEPT !.layer = addStepPair(g.layer, part.id, g.cur[part.id]),
                            !.cur   = [g.cur EXCEPT ![part.id] = @ + 1],
                            !.ok    = g.ok /\ ~HasPart(g.layer, part.id)],
                  the_min_plane, tolerance)
         ELSE g

RECURSIVE GroupLoop_While(_, _, _, _, _)
GroupLoop_While(parts, g0, the_min_plane, tolerance, n) ==
    IF n = 0 THEN g0
    ELSE TakeWhileEqual(parts[n], GroupLoop_While(parts, g0, the_min_plane, tolerance, n - 1),
                        the_min_plane, tolerance)

\* The body of the group loop (source lines 106-126) for one part.  g is
\* [layer, cur, ok]: the new global layer, the cursors, and whether every
\* addStepPair so far met its precondition.
GroupVisit(part, g, the_min_plane, tolerance) ==
    LET part_id == part.id
    IN  IF g.cur[part_id] >= countStepPairs(part) THEN g
        ELSE LET current_step == getStepPair(part, g.cur[part_id])
                 layer_plane  == ShiftedPlane(current_step)
             IN  IF isEqual(layer_plane, the_min_plane, tolerance)
                 THEN [g EXCEPT !.layer = addStepPair(g.layer, part_id, g.cur[part_id]),
                                !.cur   = [g.cur EXCEPT ![part_id] = @ + 1],
                                !.ok    = g.ok /\ ~HasPart(g.layer, part_id)]
                 ELSE g

\* The group loop (source lines 104-127) over the first n parts of the list,
\* in list order.
RECURSIVE GroupLoop(_, _, _, _, _)
GroupLoop(parts, g0, the_min_plane, tolerance, n) ==
    IF n = 0 THEN g0
    ELSE Only({GroupVisit(parts[n], g, the_min_plane, tolerance) :
                  g \in {GroupLoop(parts, g0, the_min_plane, tolerance, n - 1)}})

\* Mutant of StepsLeft: the "steps_left = false" before the update is
\* missing, so steps_left stays TRUE.
StepsLeft_NoReset(parts, cur) == TRUE

\* Mutant of StepsLeft: "&&" for "||" - the loop goes on only while every
\* part has steps left.
StepsLeft_All(parts, cur) ==
    /\ Len(parts) > 0
    /\ \A n \in 1..Len(parts) : cur[parts[n].id] < countStepPairs(parts[n])

\* The update of steps_left (source lines 135-138).
StepsLeft(parts, cur) ==
    \E n \in 1..Len(parts) : cur[parts[n].id] < countStepPairs(parts[n])

\* One pass of the while loop (source lines 63-140): the minimum search, then
\* the group loop against its min_plane.  The result is [layer, cur, ok, min],
\* min being the outcome of the minimum search.
HeightPass(parts, cur, tolerance, index) ==
    Only({GroupLoop(parts,
                    [layer |-> NewGlobalLayer(index), cur |-> cur, ok |-> TRUE, min |-> m],
                    m.plane, tolerance, Len(parts)) :
             m \in {FindMin(parts, cur, Len(parts))}})

\* The cursors at loop entry (source lines 59-61).
InitialCursors(parts) ==
    [id \in {parts[n].id : n \in 1..Len(parts)} |-> 0]

\* The whole while loop (source lines 54-140) as a function of its inputs: the
\* list of layers built from the cursors cur on, appended to layers.  The body
\* runs at least once, steps_left being TRUE at entry.
RECURSIVE HeightLoop(_, _, _, _)
HeightLoop(parts, cur, tolerance, layers) ==
    Only({IF StepsLeft(parts, g.cur)
          THEN HeightLoop(parts, g.cur, tolerance, Append(layers, g.layer))
          ELSE Append(layers, g.layer) :
             g \in {HeightPass(parts, cur, tolerance, Len(layers))}})

\* populateSteps with order_method = kByHeight as a function of its inputs.
populateStepsByHeight(parts, tolerance) ==
    HeightLoop(parts, InitialCursors(parts), tolerance, <<>>)

\* A cap on the iterations of the while loop, well above the one iteration per
\* step pair the loop can need; it keeps the state space finite should an
\* iteration fail to advance.
IterationCap(parts) == 2 * TotalSteps(parts) + 2

\* ------------------------------------------------------------- state machine
\* The caller holds no earlier schedule.
NoPrevious == [method |-> "none", tolerance |-> 0, parts |-> <<>>, layers |-> <<>>]

NoCursors == [id \in {} |-> 0]

\* PrinterControlWidget after its constructor (PrinterControlWidget.cpp lines
\* 27-37): the three line edits and the log are empty.
NewWidget == [m_xInput |-> "", m_yInput |-> "", m_zInput |-> "", m_logDisplay |-> <<>>]

\* PrinterCommunicator after its constructor: nothing received, nothing emitted.
NewCommunicator == [commands |-> <<>>, responses |-> <<>>]

\* No MeshLoader has been constructed.
NoFile == [exists |-> FALSE, opens |-> FALSE, scene |-> [null |-> TRUE, mMeshes |-> <<>>]]

NoLoader == [pc |-> "none", file |-> NoFile, meshes |-> <<>>, next |-> 0, signals |-> <<>>]

WidgetInit ==
    /\ widget = NewWidget
    /\ communicator = NewCommunicator
    /\ loader = NoLoader

Init ==
    /\ build_parts = <<>>
    /\ pc = "idle"
    /\ order_method = "kByHeight"
    /\ layer_grouping_tolerance = 0
    /\ current_layer = NoCursors
    /\ steps_left = FALSE
    /\ num_global_steps = 0
    /\ part_with_min_plane = NoMin.part
    /\ min_plane = NoMin.plane
    /\ min_dist = NoMin.dist
    /\ max_steps = 0
    /\ step = 0
    /\ part_pos = 0
    /\ s = 0
    /\ s_max = 0
    /\ num_g_steps = 0
    /\ new_g_layer = NoLayer
    /\ previous = NoPrevious
    /\ call_parts = <<>>
    /\ part_it = 0
    /\ layer_under_construction = NoLayer
    /\ global_layers = <<>>
    /\ WidgetInit

\* The upstream pipeline adds a part (with a fresh id) while no call is running.
AddPart ==
    /\ pc = "idle"
    /\ Len(build_parts) < MaxParts
    /\ build_parts' = Append(build_parts,
                             [id |-> Len(build_parts) + 1, steps |-> <<>>, dirty |-> {}])
    /\ UNCHANGED <<call_parts, previous, pc, order_method, layer_grouping_tolerance,
                   locals, global_layers, widget_vars>>

\* Slicing appends a step pair to a part while no call is running; the new
\* step pair is dirty.
AppendStep ==
    /\ pc = "idle"
    /\ TotalSteps(build_parts) < MaxTotal
    /\ \E n \in 1..Len(build_parts), v \in StepValues :
          build_parts' = [build_parts EXCEPT ![n].steps = Append(@, v),
                                            ![n].dirty = @ \cup {countStepPairs(build_parts[n])}]
    /\ UNCHANGED <<call_parts, previous, pc, order_method, layer_grouping_tolerance,
                   locals, global_layers, widget_vars>>

\* Mutant of CallByHeight: current_layer outlives the call (a member, filled
\* only when it is empty), so a later call starts from the cursors of the
\* earlier one.
CallByHeight_KeepCursors ==
    /\ pc = "idle"
    /\ call_parts' = build_parts
    /\ \E tolerance \in Tolerances : layer_grouping_tolerance' = tolerance
    /\ order_method' = "kByHeight"
    /\ global_layers' = <<>>
    /\ steps_left' = TRUE
    /\ num_global_steps' = 0
    /\ current_layer' = IF current_layer = NoCursors
                         THEN InitialCursors(build_parts)
                         ELSE current_layer
    /\ pc' = "byHeight"
    /\ UNCHANGED <<part_it, layer_under_construction, previous, build_parts, new_g_layer,
                   min_vars, max_steps, step, part_pos, s, s_max, num_g_steps, widget_vars>>

\* Entry of populateSteps with order_method = kByHeight (source lines 28-61).
CallByHeight ==
    /\ pc = "idle"
    /\ call_parts' = build_parts
    /\ \E tolerance \in Tolerances : layer_grouping_tolerance' = tolerance
    /\ order_method' = "kByHeight"
    /\ global_layers' = <<>>
    /\ steps_left' = TRUE
    /\ num_global_steps' = 0
    /\ current_layer' = InitialCursors(build_parts)
    /\ pc' = "byHeight"
    /\ UNCHANGED <<part_it, layer_under_construction, previous, build_parts, new_g_layer,
                   min_vars, max_steps, step, part_pos, s, s_max, num_g_steps, widget_vars>>

\* One iteration of while (steps_left) (source lines 63-140).
ByHeightIter ==
    /\ pc = "byHeight"
    /\ steps_left
    /\ Len(global_layers) < IterationCap(build_parts)
    /\ \E g \in {HeightPass(build_parts, current_layer, layer_grouping_tolerance,
                             num_global_steps)} :
           /\ part_with_min_plane' = g.min.part
           /\ min_plane' = g.min.plane
           /\ min_dist' = g.min.dist
           /\ global_layers' = Append(global_layers, g.layer)
           /\ current_layer' = g.cur
           /\ num_global_steps' = num_global_steps + 1
           /\ steps_left' = StepsLeft(build_parts, g.cur)
           /\ pc' = IF g.ok THEN "byHeight" ELSE "aborted"
    /\ UNCHANGED <<call_parts, part_it, layer_under_construction, previous, build_parts,
                   new_g_layer, order_method, layer_grouping_tolerance, max_steps, step,
                   part_pos, s, s_max, num_g_steps, widget_vars>>

\* Mutant of ByHeightReturn: the scheduler takes the step pairs out of the
\* parts it has scheduled.
ByHeightReturn_TakesSteps ==
    /\ pc = "byHeight"
    /\ ~steps_left
    /\ pc' = "done"
    /\ build_parts' = [n \in 1..Len(build_parts) |-> [build_parts[n] EXCEPT !.steps = <<>>]]
    /\ UNCHANGED <<call_parts, previous, order_method, layer_grouping_tolerance, locals,
                   global_layers, widget_vars>>

\* The while loop exits and populateSteps returns (source lines 140, 212).
ByHeightReturn ==
    /\ pc = "byHeight"
    /\ ~steps_left
    /\ pc' = "done"
    /\ UNCHANGED <<call_parts, previous, build_parts, order_method,
                   layer_grouping_tolerance, locals, global_layers, widget_vars>>

\* ------------------------------------------------------------- ByLayerNumber
\* The body of the inner range-for (source lines 162-163) for one part; g is
\* [layer, ok].
ZipVisit(part, g, stp) ==
    IF stp < countStepPairs(part)
    THEN [layer |-> addStepPair(g.layer, part.id, stp),
          ok    |-> g.ok /\ ~HasPart(g.layer, part.id)]
    ELSE g

\* One pass of the inner range-for (source lines 160-164) over the first n
\* parts, in list order.
RECURSIVE ZipLoop(_, _, _, _)
ZipLoop(parts, g0, stp, n) ==
    IF n = 0 THEN g0
    ELSE Only({ZipVisit(parts[n], g, stp) : g \in {ZipLoop(parts, g0, stp, n - 1)}})

\* Entry with order_method = kByLayerNumber (source lines 142-150).
CallByLayerNumber ==
    /\ pc = "idle"
    /\ call_parts' = build_parts
    /\ order_method' = "kByLayerNumber"
    /\ global_layers' = <<>>
    /\ max_steps' = MaxSteps(build_parts, Len(build_parts))
    /\ step' = 0
    /\ pc' = "byLayerNumber"
    /\ UNCHANGED <<part_it, layer_under_construction, previous, build_parts, new_g_layer,
                   layer_grouping_tolerance, current_layer, steps_left, num_global_steps,
                   min_vars, part_pos, s, s_max, num_g_steps, widget_vars>>

\* Mutant of ByLayerNumberIter: push_front for push_back.
ByLayerNumberIter_PushFront ==
    /\ pc = "byLayerNumber"
    /\ step < max_steps
    /\ \E g \in {ZipLoop(build_parts, [layer |-> NewGlobalLayer(step), ok |-> TRUE],
                          step, Len(build_parts))} :
           /\ global_layers' = <<g.layer>> \o global_layers
           /\ pc' = IF g.ok THEN "byLayerNumber" ELSE "aborted"
    /\ step' = step + 1
    /\ UNCHANGED <<call_parts, part_it, layer_under_construction, previous, build_parts,
                   new_g_layer, order_method, layer_grouping_tolerance, current_layer,
                   steps_left, num_global_steps, min_vars, max_steps, part_pos, s, s_max,
                   num_g_steps, widget_vars>>

\* One iteration of for (step < max_steps) (source lines 155-167).
ByLayerNumberIter ==
    /\ pc = "byLayerNumber"
    /\ step < max_steps
    /\ \E g \in {ZipLoop(build_parts, [layer |-> NewGlobalLayer(step), ok |-> TRUE],
                          step, Len(build_parts))} :
           /\ global_layers' = Append(global_layers, g.layer)
           /\ pc' = IF g.ok THEN "byLayerNumber" ELSE "aborted"
    /\ step' = step + 1
    /\ UNCHANGED <<call_parts, part_it, layer_under_construction, previous, build_parts,
                   new_g_layer, order_method, layer_grouping_tolerance, current_layer,
                   steps_left, num_global_steps, min_vars, max_steps, part_pos, s, s_max,
                   num_g_steps, widget_vars>>

ByLayerNumberReturn ==
    /\ pc = "byLayerNumber"
    /\ ~(step < max_steps)
    /\ pc' = "done"
    /\ UNCHANGED <<call_parts, previous, build_parts, order_method,
                   layer_grouping_tolerance, locals, global_layers, widget_vars>>

\* ------------------------------------------------------------- ByPart
\* Entry with order_method = kByPart (source lines 169-178): the range-for is
\* before its first part.
CallByPart ==
    /\ pc = "idle"
    /\ call_parts' = build_parts
    /\ order_method' = "kByPart"
    /\ global_layers' = <<>>
    /\ max_steps' = TotalSteps(build_parts)
    /\ num_g_steps' = 0
    /\ part_pos' = 0
    /\ s' = 0
    /\ s_max' = 0
    /\ pc' = "byPart"
    /\ UNCHANGED <<part_it, layer_under_construction, previous, build_parts, new_g_layer,
                   layer_grouping_tolerance, current_layer, steps_left, num_global_steps,
                   min_vars, step, widget_vars>>

\* Mutant of ByPartNextPart: the inner loop starts at 1 instead of 0.
ByPartNextPart_FromOne ==
    /\ pc = "byPart"
    /\ ~(s < s_max)
    /\ part_pos < Len(build_parts)
    /\ part_pos' = part_pos + 1
    /\ s' = 1
    /\ s_max' = countStepPairs(build_parts[part_pos + 1])
    /\ UNCHANGED <<call_parts, part_it, layer_under_construction, previous, build_parts,
                   new_g_layer, pc, order_method, layer_grouping_tolerance, current_layer,
                   steps_left, num_global_steps, min_vars, max_steps, step, num_g_steps,
                   global_layers, widget_vars>>

\* The inner loop is exhausted: the range-for moves to the next part and the
\* inner loop is initialised (source lines 179-181).
ByPartNextPart ==
    /\ pc = "byPart"
    /\ ~(s < s_max)
    /\ part_pos < Len(build_parts)
    /\ part_pos' = part_pos + 1
    /\ s' = 0
    /\ s_max' = countStepPairs(build_parts[part_pos + 1])
    /\ UNCHANGED <<call_parts, part_it, layer_under_construction, previous, build_parts,
                   new_g_layer, pc, order_method, layer_grouping_tolerance, current_layer,
                   steps_left, num_global_steps, min_vars, max_steps, step, num_g_steps,
                   global_layers, widget_vars>>

\* Mutant of ByPartIter: the layer is created with the inner loop variable s
\* for num_g_steps.
ByPartIter_IndexS ==
    /\ pc = "byPart"
    /\ s < s_max
    /\ LET part == build_parts[part_pos]
           new_global_layer == addStepPair(NewGlobalLayer(s), part.id, s)
       IN  global_layers' = Append(global_layers, new_global_layer)
    /\ num_g_steps' = num_g_steps + 1
    /\ s' = s + 1
    /\ UNCHANGED <<call_parts, part_it, layer_under_construction, previous, build_parts,
                   new_g_layer, pc, order_method, layer_grouping_tolerance, current_layer,
                   steps_left, num_global_steps, min_vars, max_steps, step, part_pos,
                   s_max, widget_vars>>

\* One iteration of the inner loop (source lines 181-188).
ByPartIter ==
    /\ pc = "byPart"
    /\ s < s_max
    /\ LET part == build_parts[part_pos]
           new_global_layer == addStepPair(NewGlobalLayer(num_g_steps), part.id, s)
       IN  global_layers' = Append(global_layers, new_global_layer)
    /\ num_g_steps' = num_g_steps + 1
    /\ s' = s + 1
    /\ UNCHANGED <<call_parts, part_it, layer_under_construction, previous, build_parts,
                   new_g_layer, pc, order_method, layer_grouping_tolerance, current_layer,
                   steps_left, num_global_steps, min_vars, max_steps, step, part_pos,
                   s_max, widget_vars>>

ByPartReturn ==
    /\ pc = "byPart"
    /\ ~(s < s_max)
    /\ ~(part_pos < Len(build_parts))
    /\ pc' = "done"
    /\ UNCHANGED <<call_parts, previous, build_parts, order_method,
                   layer_grouping_tolerance, locals, global_layers, widget_vars>>

\* ------------------------------------------------------------- populateSteps, part by part
\* The loops over build_parts taken one part at a time: one action is one
\* visit of a part, in which the part's count and step pair are read.  This is
\* the granularity at which a producer that appends steps during a call can
\* interfere, each read of a part being atomic.
by_part_vars == <<part_pos, s, s_max, num_g_steps>>

height_vars == <<current_layer, steps_left, num_global_steps, min_vars>>

\* What no step inside a call assigns to.
call_vars == <<build_parts, order_method, layer_grouping_tolerance, call_parts, previous,
               new_g_layer>>

\* Entry with order_method = kByHeight (source lines 28-61).
EnterByHeight ==
    /\ pc = "idle"
    /\ call_parts' = build_parts
    /\ \E tolerance \in Tolerances : layer_grouping_tolerance' = tolerance
    /\ order_method' = "kByHeight"
    /\ global_layers' = <<>>
    /\ steps_left' = TRUE
    /\ num_global_steps' = 0
    /\ current_layer' = InitialCursors(build_parts)
    /\ pc' = "h_while"
    /\ UNCHANGED <<build_parts, previous, new_g_layer, min_vars, max_steps, step,
                   by_part_vars, part_it, layer_under_construction, widget_vars>>

\* while (steps_left) holds: the minimum search begins (source lines 63-73).
HeightWhile ==
    /\ pc = "h_while"
    /\ steps_left
    /\ Len(global_layers) < IterationCap(build_parts)
    /\ part_with_min_plane' = NoMin.part
    /\ min_plane' = NoMin.plane
    /\ min_dist' = NoMin.dist
    /\ part_it' = 1
    /\ pc' = "h_min"
    /\ UNCHANGED <<call_vars, current_layer, steps_left, num_global_steps, max_steps, step,
                   by_part_vars, layer_under_construction, global_layers, widget_vars>>

\* while (steps_left) fails: populateSteps returns (source lines 63, 212).
HeightExit ==
    /\ pc = "h_while"
    /\ ~steps_left
    /\ pc' = "done"
    /\ UNCHANGED <<call_vars, locals, global_layers, widget_vars>>

\* The minimum search visits one part (source lines 75-98).
HeightMinVisit ==
    /\ pc = "h_min"
    /\ part_it <= Len(build_parts)
    /\ \E m \in {MinVisit(build_parts[part_it], current_layer,
                           [part |-> part_with_min_plane, plane |-> min_plane,
                            dist |-> min_dist])} :
          /\ part_with_min_plane' = m.part
          /\ min_plane' = m.plane
          /\ min_dist' = m.dist
    /\ part_it' = part_it + 1
    /\ UNCHANGED <<call_vars, pc, current_layer, steps_left, num_global_steps, max_steps,
                   step, by_part_vars, layer_under_construction, global_layers,
                   widget_vars>>

\* The minimum search is over: the new layer is created (source line 103).
HeightMinEnd ==
    /\ pc = "h_min"
    /\ part_it > Len(build_parts)
    /\ layer_under_construction' = NewGlobalLayer(num_global_steps)
    /\ part_it' = 1
    /\ pc' = "h_group"
    /\ UNCHANGED <<call_vars, height_vars, max_steps, step, by_part_vars, global_layers,
                   widget_vars>>

\* What the visit of one part by the group loop can do to g = [layer, cur,
\* ok] (source lines 106-126).  Where the minimum search saw no active part,
\* min_plane is a default-constructed Plane, and whether the step of a part
\* that has become active since then equals it is open.
GroupOutcomes(part, g) ==
    IF part_with_min_plane = NullId /\ g.cur[part.id] < countStepPairs(part)
    THEN {g,
          [g EXCEPT !.layer = addStepPair(g.layer, part.id, g.cur[part.id]),
                    !.cur   = [g.cur EXCEPT ![part.id] = @ + 1],
                    !.ok    = g.ok /\ ~HasPart(g.layer, part.id)]}
    ELSE {GroupVisit(part, g, min_plane, layer_grouping_tolerance)}

\* The group loop visits one part (source lines 106-126).
HeightGroupVisit ==
    /\ pc = "h_group"
    /\ part_it <= Len(build_parts)
    /\ \E g \in GroupOutcomes(build_parts[part_it],
                               [layer |-> layer_under_construction, cur |-> current_layer,
                                ok |-> TRUE]) :
          /\ layer_under_construction' = g.layer
          /\ current_layer' = g.cur
          /\ pc' = IF g.ok THEN "h_group" ELSE "aborted"
    /\ part_it' = part_it + 1
    /\ UNCHANGED <<call_vars, steps_left, num_global_steps, min_vars, max_steps, step,
                   by_part_vars, global_layers, widget_vars>>

\* The group loop is over: the layer is pushed and the update of steps_left
\* begins (source lines 131-135).
HeightGroupEnd ==
    /\ pc = "h_group"
    /\ part_it > Len(build_parts)
    /\ global_layers' = Append(global_layers, layer_under_construction)
    /\ num_global_steps' = num_global_steps + 1
    /\ steps_left' = FALSE
    /\ part_it' = 1
    /\ pc' = "h_left"
    /\ UNCHANGED <<call_vars, current_layer, min_vars, max_steps, step, by_part_vars,
                   layer_under_construction, widget_vars>>

\* Mutant of HeightLeftVisit: "=" for "= steps_left ||" - the last part
\* decides.
HeightLeftVisit_Assign ==
    /\ pc = "h_left"
    /\ part_it <= Len(build_parts)
    /\ steps_left' = (current_layer[build_parts[part_it].id]
                         < countStepPairs(build_parts[part_it]))
    /\ part_it' = part_it + 1
    /\ UNCHANGED <<call_vars, pc, current_layer, num_global_steps, min_vars, max_steps,
                   step, by_part_vars, layer_under_construction, global_layers,
                   widget_vars>>

\* The update of steps_left visits one part (source lines 137-138).
HeightLeftVisit ==
    /\ pc = "h_left"
    /\ part_it <= Len(build_parts)
    /\ steps_left' = (steps_left \/ current_layer[build_parts[part_it].id]
                                       < countStepPairs(build_parts[part_it]))
    /\ part_it' = part_it + 1
    /\ UNCHANGED <<call_vars, pc, current_layer, num_global_steps, min_vars, max_steps,
                   step, by_part_vars, layer_under_construction, global_layers,
                   widget_vars>>

\* The update of steps_left is over (source lines 138-140).
HeightLeftEnd ==
    /\ pc = "h_left"
    /\ part_it > Len(build_parts)
    /\ pc' = "h_while"
    /\ UNCHANGED <<call_vars, locals, global_layers, widget_vars>>

\* Entry with order_method = kByLayerNumber (source lines 28-32, 142-147).
EnterByLayerNumber ==
    /\ pc = "idle"
    /\ call_parts' = build_parts
    /\ order_method' = "kByLayerNumber"
    /\ global_layers' = <<>>
    /\ max_steps' = 0
    /\ part_it' = 1
    /\ pc' = "n_max"
    /\ UNCHANGED <<build_parts, layer_grouping_tolerance, previous, new_g_layer,
                   height_vars, step, by_part_vars, layer_under_construction, widget_vars>>

\* The maximum of the counts visits one part (source lines 147-148).
NumberMaxVisit ==
    /\ pc = "n_max"
    /\ part_it <= Len(build_parts)
    /\ max_steps' = Max(max_steps, countStepPairs(build_parts[part_it]))
    /\ part_it' = part_it + 1
    /\ UNCHANGED <<call_vars, pc, height_vars, step, by_part_vars,
                   layer_under_construction, global_layers, widget_vars>>

\* max_steps is known: the for loop is initialised (source lines 150-155).
NumberMaxEnd ==
    /\ pc = "n_max"
    /\ part_it > Len(build_parts)
    /\ step' = 0
    /\ pc' = "n_for"
    /\ UNCHANGED <<call_vars, height_vars, max_steps, by_part_vars, part_it,
                   layer_under_construction, global_layers, widget_vars>>

\* step < max_steps holds: the layer of this step is created (source lines
\* 155-160).
NumberFor ==
    /\ pc = "n_for"
    /\ step < max_steps
    /\ layer_under_construction' = NewGlobalLayer(step)
    /\ part_it' = 1
    /\ pc' = "n_zip"
    /\ UNCHANGED <<call_vars, height_vars, max_steps, step, by_part_vars, global_layers,
                   widget_vars>>

\* step < max_steps fails: populateSteps returns (source lines 155, 212).
NumberExit ==
    /\ pc = "n_for"
    /\ ~(step < max_steps)
    /\ pc' = "done"
    /\ UNCHANGED <<call_vars, locals, global_layers, widget_vars>>

\* The inner range-for visits one part (source lines 162-163).
NumberZipVisit ==
    /\ pc = "n_zip"
    /\ part_it <= Len(build_parts)
    /\ \E g \in {ZipVisit(build_parts[part_it],
                            [layer |-> layer_under_construction, ok |-> TRUE], step)} :
          /\ layer_under_construction' = g.layer
          /\ pc' = IF g.ok THEN "n_zip" ELSE "aborted"
    /\ part_it' = part_it + 1
    /\ UNCHANGED <<call_vars, height_vars, max_steps, step, by_part_vars, global_layers,
                   widget_vars>>

\* The inner range-for is over: the layer is pushed (source lines 166-167).
NumberZipEnd ==
    /\ pc = "n_zip"
    /\ part_it > Len(build_parts)
    /\ global_layers' = Append(global_layers, layer_under_construction)
    /\ step' = step + 1
    /\ pc' = "n_for"
    /\ UNCHANGED <<call_vars, height_vars, max_steps, by_part_vars, part_it,
                   layer_under_construction, widget_vars>>

\* ------------------------------------------------------------- invalid order method
\* populateSteps with an order_method that matches none of the three branches
\* (source lines 28-32, 191-194, 212), the whole call: global_layers is created
\* empty, Q_ASSERT(false) is reached, and where the assertion is compiled out
\* the call goes on to return global_layers.
CallUnsupported ==
    /\ pc = "idle"
    /\ order_method' = kInvalid
    /\ global_layers' = <<>>
    /\ \E outcome \in AssertOutcomes :
          pc' = IF outcome = "fatal" THEN "fatal" ELSE "done"
    /\ UNCHANGED <<call_parts, previous, build_parts, layer_grouping_tolerance, locals,
                   widget_vars>>

\* ------------------------------------------------------------- populateStep
\* Part::getDirtyStepPairs(): the part's dirty step pairs, in the order of the
\* part's sequence.
getDirtyStepPairs(part) ==
    SelectSeq([k \in 1..countStepPairs(part) |-> k - 1], LAMBDA i : i \in part.dirty)

\* The inner range-for (source lines 17-18) over the first k dirty step pairs
\* of one part; g is [layer, ok].
RECURSIVE DirtyLoop(_, _, _, _)
DirtyLoop(part, dirty_step_groups, g0, k) ==
    IF k = 0 THEN g0
    ELSE Only({[layer |-> addStepPair(g.layer, part.id, dirty_step_groups[k]),
                ok    |-> g.ok /\ ~HasPart(g.layer, part.id)] :
                  g \in {DirtyLoop(part, dirty_step_groups, g0, k - 1)}})

\* The body of the outer range-for (source lines 16-18) for one part.
DirtyVisit(part, g) ==
    Only({DirtyLoop(part, dirty_step_groups, g, Len(dirty_step_groups)) :
             dirty_step_groups \in {getDirtyStepPairs(part)}})

\* Mutant of StepLoop: the range-for starts at the second part.
RECURSIVE StepLoop_SkipFirst(_, _, _)
StepLoop_SkipFirst(parts, g0, n) ==
    IF n <= 1 THEN g0
    ELSE DirtyVisit(parts[n], StepLoop_SkipFirst(parts, g0, n - 1))

\* The outer range-for (source lines 14-19) over the first n parts, in list
\* order.
RECURSIVE StepLoop(_, _, _)
StepLoop(parts, g0, n) ==
    IF n = 0 THEN g0
    ELSE Only({DirtyVisit(parts[n], g) : g \in {StepLoop(parts, g0, n - 1)}})

\* populateStep (source lines 7-22), the whole call: the layer is created with
\* sequence index 0, every dirty step pair of every part is added, and the
\* layer is returned unless an addStepPair failed its precondition.
PopulateStep ==
    /\ pc = "idle"
    /\ \E g \in {StepLoop(build_parts, [layer |-> NewGlobalLayer(0), ok |-> TRUE],
                           Len(build_parts))} :
           /\ new_g_layer' = g.layer
           /\ pc' = IF g.ok THEN "stepDone" ELSE "aborted"
    /\ UNCHANGED <<call_parts, part_it, layer_under_construction, previous, build_parts,
                   order_method, layer_grouping_tolerance, current_layer, steps_left,
                   num_global_steps, min_vars, max_steps, step, part_pos, s, s_max,
                   num_g_steps, global_layers, widget_vars>>

\* The caller consumes the returned layer and discards it.
ConsumeStep ==
    /\ pc = "stepDone"
    /\ pc' = "idle"
    /\ new_g_layer' = NoLayer
    /\ UNCHANGED <<call_parts, part_it, layer_under_construction, previous, build_parts,
                   order_method, layer_grouping_tolerance, current_layer, steps_left,
                   num_global_steps, min_vars, max_steps, step, part_pos, s, s_max,
                   num_g_steps, global_layers, widget_vars>>

\* The producer clears the dirty flags of a part while no call is running.
ClearDirty ==
    /\ pc = "idle"
    /\ \E n \in 1..Len(build_parts) :
          /\ build_parts[n].dirty # {}
          /\ build_parts' = [build_parts EXCEPT ![n].dirty = {}]
    /\ UNCHANGED <<call_parts, previous, pc, order_method, layer_grouping_tolerance,
                   locals, global_layers, widget_vars>>

\* ------------------------------------------------------------- caller
\* The caller consumes the returned list; the locals of the call are gone.
Consume ==
    /\ pc = "done"
    /\ pc' = "idle"
    /\ order_method' = "kByHeight"
    /\ layer_grouping_tolerance' = 0
    /\ current_layer' = NoCursors
    /\ steps_left' = FALSE
    /\ num_global_steps' = 0
    /\ part_with_min_plane' = NoMin.part
    /\ min_plane' = NoMin.plane
    /\ min_dist' = NoMin.dist
    /\ max_steps' = 0
    /\ step' = 0
    /\ part_pos' = 0
    /\ s' = 0
    /\ s_max' = 0
    /\ num_g_steps' = 0
    /\ global_layers' = <<>>
    /\ call_parts' = <<>>
    /\ part_it' = 0
    /\ layer_under_construction' = NoLayer
    /\ UNCHANGED <<previous, build_parts, new_g_layer, widget_vars>>

\* The caller keeps the returned list, with the settings and the parts of the
\* call, and is free to call again.  What the call left in its variables stays
\* where it is: a later call sees it unless it initialises what it reads.
KeepSchedule ==
    /\ pc = "done"
    /\ pc' = "idle"
    /\ previous' = [method    |-> order_method,
                    tolerance |-> layer_grouping_tolerance,
                    parts     |-> build_parts,
                    layers    |-> global_layers]
    /\ UNCHANGED <<call_parts, build_parts, order_method, layer_grouping_tolerance, locals,
                   global_layers, widget_vars>>

\* ------------------------------------------------------------- scenario inputs
\* Two parts of three and two steps.  A layer height of 2 puts the shifted
\* plane of a slicing plane at offset z at distance z + 1.
ScenarioPlanes == {-1, 0, 1}

ScenarioSteps == [plane : ScenarioPlanes, layerHeight : LayerHeights]

InitScenario ==
    /\ \E a \in [1..3 -> ScenarioSteps], b \in [1..2 -> ScenarioSteps] :
          build_parts = <<[id |-> 1, steps |-> a, dirty |-> {0, 1, 2}],
                          [id |-> 2, steps |-> b, dirty |-> {0, 1}]>>
    /\ pc = "idle"
    /\ order_method = "kByHeight"
    /\ layer_grouping_tolerance = 0
    /\ current_layer = NoCursors
    /\ steps_left = FALSE
    /\ num_global_steps = 0
    /\ part_with_min_plane = NoMin.part
    /\ min_plane = NoMin.plane
    /\ min_dist = NoMin.dist
    /\ max_steps = 0
    /\ step = 0
    /\ part_pos = 0
    /\ s = 0
    /\ s_max = 0
    /\ num_g_steps = 0
    /\ new_g_layer = NoLayer
    /\ previous = NoPrevious
    /\ call_parts = <<>>
    /\ part_it = 0
    /\ layer_under_construction = NoLayer
    /\ global_layers = <<>>
    /\ WidgetInit

NextScenario ==
    \/ CallByHeight
    \/ ByHeightIter
    \/ ByHeightReturn

SpecScenario == InitScenario /\ [][NextScenario]_vars

\* Repeated calls on unmodified parts: two parts of two steps and one step.
InitTwice ==
    /\ \E a \in [1..2 -> ScenarioSteps], b \in [1..1 -> ScenarioSteps] :
          build_parts = <<[id |-> 1, steps |-> a, dirty |-> {0, 1}],
                          [id |-> 2, steps |-> b, dirty |-> {0}]>>
    /\ pc = "idle"
    /\ order_method = "kByHeight"
    /\ layer_grouping_tolerance = 0
    /\ current_layer = NoCursors
    /\ steps_left = FALSE
    /\ num_global_steps = 0
    /\ part_with_min_plane = NoMin.part
    /\ min_plane = NoMin.plane
    /\ min_dist = NoMin.dist
    /\ max_steps = 0
    /\ step = 0
    /\ part_pos = 0
    /\ s = 0
    /\ s_max = 0
    /\ num_g_steps = 0
    /\ new_g_layer = NoLayer
    /\ previous = NoPrevious
    /\ call_parts = <<>>
    /\ part_it = 0
    /\ layer_under_construction = NoLayer
    /\ global_layers = <<>>
    /\ WidgetInit

Next ==
    \/ AddPart
    \/ AppendStep
    \/ CallByHeight
    \/ ByHeightIter
    \/ ByHeightReturn
    \/ CallByLayerNumber
    \/ ByLayerNumberIter
    \/ ByLayerNumberReturn
    \/ CallByPart
    \/ ByPartNextPart
    \/ ByPartIter
    \/ ByPartReturn
    \/ Consume

Spec == Init /\ [][Next]_vars

\* The calls with order_method = kByHeight alone.
NextHeight ==
    \/ AddPart
    \/ AppendStep
    \/ CallByHeight
    \/ ByHeightIter
    \/ ByHeightReturn
    \/ Consume

SpecHeight == Init /\ [][NextHeight]_vars

\* Call after call of populateSteps on the same parts.
NextTwice ==
    \/ CallByHeight
    \/ ByHeightIter
    \/ ByHeightReturn
    \/ CallByLayerNumber
    \/ ByLayerNumberIter
    \/ ByLayerNumberReturn
    \/ CallByPart
    \/ ByPartNextPart
    \/ ByPartIter
    \/ ByPartReturn
    \/ KeepSchedule

SpecTwice == InitTwice /\ [][NextTwice]_vars

\* The positions of a call in which the parts are still read.  ByPart is
\* taken part by part by ByPartNextPart and ByPartIter, which read one count
\* and one step pair each.
RunningPcs == {"h_while", "h_min", "h_group", "h_left", "n_max", "n_for", "n_zip", "byPart"}

\* The producer appends a step pair to a part while a call is running.  The
\* slicing planes are the scenario's, which with the tolerances put a step
\* below, at, within and beyond the tolerance of another.
AppendDuringCall ==
    /\ pc \in RunningPcs
    /\ TotalSteps(build_parts) < MaxTotal
    /\ \E n \in 1..Len(build_parts), v \in ScenarioSteps :
          build_parts' = [build_parts EXCEPT ![n].steps = Append(@, v),
                                            ![n].dirty = @ \cup {countStepPairs(build_parts[n])}]
    /\ UNCHANGED <<pc, order_method, layer_grouping_tolerance, call_parts, previous, locals,
                   global_layers, widget_vars>>

\* Two parts, no step sliced yet.
InitConcurrent ==
    /\ build_parts = <<[id |-> 1, steps |-> <<>>, dirty |-> {}],
                       [id |-> 2, steps |-> <<>>, dirty |-> {}]>>
    /\ pc = "idle"
    /\ order_method = "kByHeight"
    /\ layer_grouping_tolerance = 0
    /\ current_layer = NoCursors
    /\ steps_left = FALSE
    /\ num_global_steps = 0
    /\ part_with_min_plane = NoMin.part
    /\ min_plane = NoMin.plane
    /\ min_dist = NoMin.dist
    /\ max_steps = 0
    /\ step = 0
    /\ part_pos = 0
    /\ s = 0
    /\ s_max = 0
    /\ num_g_steps = 0
    /\ new_g_layer = NoLayer
    /\ previous = NoPrevious
    /\ call_parts = <<>>
    /\ part_it = 0
    /\ layer_under_construction = NoLayer
    /\ global_layers = <<>>
    /\ WidgetInit

\* Call after call of populateSteps, the producer appending steps during
\* the calls.
NextConcurrent ==
    \/ EnterByHeight
    \/ HeightWhile
    \/ HeightExit
    \/ HeightMinVisit
    \/ HeightMinEnd
    \/ HeightGroupVisit
    \/ HeightGroupEnd
    \/ HeightLeftVisit
    \/ HeightLeftEnd
    \/ EnterByLayerNumber
    \/ NumberMaxVisit
    \/ NumberMaxEnd
    \/ NumberFor
    \/ NumberExit
    \/ NumberZipVisit
    \/ NumberZipEnd
    \/ CallByPart
    \/ ByPartNextPart
    \/ ByPartIter
    \/ ByPartReturn
    \/ AppendDuringCall
    \/ Consume

SpecConcurrent == InitConcurrent /\ [][NextConcurrent]_vars

\* The calls with an order_method outside the enumeration.
NextUnsupported ==
    \/ AddPart
    \/ AppendStep
    \/ CallUnsupported
    \/ Consume

SpecUnsupported == Init /\ [][NextUnsupported]_vars

\* Incremental mode: the calls of populateStep, between which the producer
\* appends steps and clears dirty flags.
NextStep ==
    \/ AddPart
    \/ AppendStep
    \/ ClearDirty
    \/ PopulateStep
    \/ ConsumeStep

SpecStep == Init /\ [][NextStep]_vars

\* populateSteps runs synchronously to completion: an enabled step of the
\* ByHeight loop is eventually taken.
SpecLive ==
    /\ Init
    /\ [][Next]_vars
    /\ WF_vars(ByHeightIter)
    /\ WF_vars(ByHeightReturn)

\* ------------------------------------------------------------- printer control
\* Bound on the lines of m_logDisplay.
MaxLog == 4

\* The texts typed into the line edits.
InputTexts == {"", "10"}

\* QString(format).arg(a), for a format that ends in its only place marker %1
\* (here given without the marker): a takes the place of the marker.
arg(format, a) == format \o a

\* The widget and its communicator, as the slots below pass them on.
Objects == [widget |-> widget, communicator |-> communicator]

\* PrinterControlWidget::onPrinterResponse (PrinterControlWidget.cpp lines
\* 164-167): the response is appended to the log.
onPrinterResponse(objects, response) ==
    [objects EXCEPT !.widget.m_logDisplay = Append(@, response)]

\* emit printerResponse(response) (PrinterCommunicator.cpp line 22).  The
\* communicator is a child of the widget (PrinterControlWidget.cpp line 7), so
\* both live in one thread and the connection of line 69, made without a
\* connection type, is direct: the slot has run when emit returns.
printerResponse(objects, response) ==
    onPrinterResponse([objects EXCEPT !.communicator.responses = Append(@, response)],
                      response)

\* PrinterCommunicator::mockPrinterCommunication (PrinterCommunicator.cpp
\* lines 18-23).
mockPrinterCommunication(objects, command) ==
    printerResponse(objects, arg("Printer executed command: ", command))

\* PrinterCommunicator::sendCommand (PrinterCommunicator.cpp lines 10-16).
sendCommand(objects, command) ==
    mockPrinterCommunication([objects EXCEPT !.communicator.commands = Append(@, command)],
                             command)

\* emit sendCommandToPrinter(command): the connection of line 68 is direct as
\* well, so sendCommand has run when emit returns.
sendCommandToPrinter(objects, command) == sendCommand(objects, command)

\* The user types a text into one of the line edits.
EditInput ==
    \E field \in {"m_xInput", "m_yInput", "m_zInput"}, text \in InputTexts :
        /\ widget[field] # text
        /\ widget' = [widget EXCEPT ![field] = text]
        /\ UNCHANGED <<communicator, loader, optimizer_vars>>

\* PrinterControlWidget::moveX (PrinterControlWidget.cpp lines 127-131).
moveX ==
    LET command == arg("G1 X", widget.m_xInput)
        after   == sendCommandToPrinter(Objects, command)
    IN  /\ Len(widget.m_logDisplay) + 1 <= MaxLog
        /\ widget' = after.widget
        /\ communicator' = after.communicator
        /\ UNCHANGED <<loader, optimizer_vars>>

\* PrinterControlWidget::moveY (lines 133-137).
moveY ==
    LET command == arg("G1 Y", widget.m_yInput)
        after   == sendCommandToPrinter(Objects, command)
    IN  /\ Len(widget.m_logDisplay) + 1 <= MaxLog
        /\ widget' = after.widget
        /\ communicator' = after.communicator
        /\ UNCHANGED <<loader, optimizer_vars>>

\* PrinterControlWidget::moveZ (lines 139-143).
moveZ ==
    LET command == arg("G1 Z", widget.m_zInput)
        after   == sendCommandToPrinter(Objects, command)
    IN  /\ Len(widget.m_logDisplay) + 1 <= MaxLog
        /\ widget' = after.widget
        /\ communicator' = after.communicator
        /\ UNCHANGED <<loader, optimizer_vars>>

\* PrinterControlWidget::homePrinter (lines 145-149).
homePrinter ==
    LET after == sendCommandToPrinter(Objects, "G28")
    IN  /\ Len(widget.m_logDisplay) + 1 <= MaxLog
        /\ widget' = after.widget
        /\ communicator' = after.communicator
        /\ UNCHANGED <<loader, optimizer_vars>>

\* Mutant of startPrint: the log line is appended before the command is
\* emitted.
startPrint_LogFirst ==
    LET logged == [Objects EXCEPT !.widget.m_logDisplay = Append(@, "Starting print...")]
        after  == sendCommandToPrinter(logged, "M140 S60")
    IN  /\ Len(widget.m_logDisplay) + 2 <= MaxLog
        /\ widget' = after.widget
        /\ communicator' = after.communicator
        /\ UNCHANGED <<loader, optimizer_vars>>

\* PrinterControlWidget::startPrint (lines 151-156).
startPrint ==
    LET after == sendCommandToPrinter(Objects, "M140 S60")
    IN  /\ Len(widget.m_logDisplay) + 2 <= MaxLog
        /\ widget' = [after.widget EXCEPT !.m_logDisplay = Append(@, "Starting print...")]
        /\ communicator' = after.communicator
        /\ UNCHANGED <<loader, optimizer_vars>>

\* PrinterControlWidget::stopPrint (lines 157-162).
stopPrint ==
    LET after == sendCommandToPrinter(Objects, "M112")
    IN  /\ Len(widget.m_logDisplay) + 2 <= MaxLog
        /\ widget' = [after.widget EXCEPT !.m_logDisplay = Append(@, "Stopping print...")]
        /\ communicator' = after.communicator
        /\ UNCHANGED <<loader, optimizer_vars>>

NextPrinter ==
    \/ EditInput
    \/ moveX
    \/ moveY
    \/ moveZ
    \/ homePrinter
    \/ startPrint
    \/ stopPrint

SpecPrinter == Init /\ [][NextPrinter]_vars

\* ------------------------------------------------------------- mesh loader
\* Bound on the meshes of an imported scene.
MaxMeshes == 2

\* The meshes an importer can find: with or without faces and vertices.
AiMeshes == [mNumFaces : {0, 1}, mNumVertices : {0, 1}]

\* The scenes Assimp::Importer::ReadFileFromMemory can return: nullptr, or a
\* scene of up to MaxMeshes meshes.
Scenes ==
    {[null |-> TRUE, mMeshes |-> <<>>]} \cup
    {[null |-> FALSE, mMeshes |-> m] : m \in UNION {[1..n -> AiMeshes] : n \in 0..MaxMeshes}}

\* The files a MeshLoader can be built for: whether the path exists, whether
\* fopen opens it, and what the importer makes of its bytes.
MeshFiles == [exists : BOOLEAN, opens : BOOLEAN, scene : Scenes]

\* The loop of LoadMeshes over scene->mMeshes from i on (PrinterCommunicator.cpp
\* lines 135-190): a mesh with faces and vertices is pushed back; its name has
\* the suffix num_models_added where the scene has more than one mesh (-1: no
\* suffix), and num_models_added is the number of meshes pushed so far.
RECURSIVE ExtractMeshes(_, _, _)
ExtractMeshes(mMeshes, i, loaded_meshes) ==
    IF i > Len(mMeshes) THEN loaded_meshes
    ELSE IF mMeshes[i].mNumFaces > 0 /\ mMeshes[i].mNumVertices > 0
         THEN ExtractMeshes(mMeshes, i + 1,
                  Append(loaded_meshes,
                         [mesh |-> i,
                          suffix |-> IF Len(mMeshes) > 1 THEN Len(loaded_meshes) ELSE -1]))
         ELSE ExtractMeshes(mMeshes, i + 1, loaded_meshes)

\* LoadMeshes from the scene on (lines 128-193).
FromScene(scene) ==
    IF scene.null THEN <<>>
    ELSE IF Len(scene.mMeshes) > 0 THEN ExtractMeshes(scene.mMeshes, 1, <<>>)
    ELSE <<>>

\* MeshLoader::LoadMeshes as run() calls it, without raw data
\* (PrinterCommunicator.cpp lines 66-194): the results the call can have.  A
\* path that does not exist gives the empty list (lines 76-77).  Where fopen
\* fails, LoadRawData (lines 203-207) hands a null FILE* to fseek, which is
\* undefined: the call crashes, or goes on without data and the importer
\* returns no scene.
LoadMeshes(file) ==
    IF ~file.exists THEN {[crashed |-> FALSE, meshes |-> <<>>]}
    ELSE IF ~file.opens
         THEN {[crashed |-> TRUE, meshes |-> <<>>], [crashed |-> FALSE, meshes |-> <<>>]}
         ELSE {[crashed |-> FALSE, meshes |-> FromScene(file.scene)]}

\* The signals of MeshLoader.
NoData == [mesh |-> 0, suffix |-> -1]

error == [signal |-> "error", data |-> NoData]

newMesh(mesh_data) == [signal |-> "newMesh", data |-> mesh_data]

\* Mutant of ErrorSignals: the test of isEmpty() is missing.
ErrorSignals_Always(meshes) == <<error>>

\* if(meshes.isEmpty()) emit error(...) (lines 59-60): the signals emitted.
ErrorSignals(meshes) == IF meshes = <<>> THEN <<error>> ELSE <<>>

\* MeshLoader::MeshLoader (lines 50-53).
CreateLoader ==
    /\ loader.pc = "none"
    /\ \E file \in MeshFiles : loader' = [NoLoader EXCEPT !.pc = "created", !.file = file]
    /\ UNCHANGED <<widget, communicator, optimizer_vars>>

\* run(): auto meshes = LoadMeshes(...) (line 57).
RunLoadMeshes ==
    /\ loader.pc = "created"
    /\ \E result \in LoadMeshes(loader.file) :
           loader' = IF result.crashed
                     THEN [loader EXCEPT !.pc = "crashed"]
                     ELSE [loader EXCEPT !.pc = "loaded", !.meshes = result.meshes]
    /\ UNCHANGED <<widget, communicator, optimizer_vars>>

\* run(): the test of isEmpty() and the entry of the range-for (lines 59-62).
RunCheckEmpty ==
    /\ loader.pc = "loaded"
    /\ loader' = [loader EXCEPT !.pc = "emitting", !.next = 1,
                                !.signals = @ \o ErrorSignals(loader.meshes)]
    /\ UNCHANGED <<widget, communicator, optimizer_vars>>

\* run(): one iteration of the range-for (lines 62-63).
RunEmitMesh ==
    /\ loader.pc = "emitting"
    /\ loader.next <= Len(loader.meshes)
    /\ loader' = [loader EXCEPT !.next = @ + 1,
                                !.signals = Append(@, newMesh(loader.meshes[loader.next]))]
    /\ UNCHANGED <<widget, communicator, optimizer_vars>>

\* run(): the range-for is over and run() returns (line 64).
RunReturn ==
    /\ loader.pc = "emitting"
    /\ loader.next > Len(loader.meshes)
    /\ loader' = [loader EXCEPT !.pc = "finished"]
    /\ UNCHANGED <<widget, communicator, optimizer_vars>>

NextLoader ==
    \/ CreateLoader
    \/ RunLoadMeshes
    \/ RunCheckEmpty
    \/ RunEmitMesh
    \/ RunReturn

SpecLoader == Init /\ [][NextLoader]_vars

\* ------------------------------------------------------------- reading a schedule
\* The positions <<L, k>> of the step pairs of a schedule: entry k of layer L.
Positions(layers) ==
    UNION {{<<L, k>> : k \in 1..Len(layers[L].step_pairs)} : L \in 1..Len(layers)}

EntryAt(layers, pos) == layers[pos[1]].step_pairs[pos[2]]

\* The step pairs available from the parts: [part |-> id, step |-> i], 0 <= i < count.
Available(parts) ==
    UNION {{[part |-> parts[n].id, step |-> i] : i \in 0..(countStepPairs(parts[n]) - 1)}
           : n \in 1..Len(parts)}

\* How often a step pair occurs in a schedule.
Occurrences(layers, e) ==
    Cardinality({pos \in Positions(layers) : EntryAt(layers, pos) = e})

\* The step referenced by an entry, and the distance of its shifted plane.
StepOf(parts, e) ==
    LET n == CHOOSE n \in 1..Len(parts) : parts[n].id = e.part
    IN  getStepPair(parts[n], e.step)

DistOf(parts, e) == PlaneDist(ShiftedPlane(StepOf(parts, e)))

Returned == pc = "done"

\* C1: completeness and uniqueness.  In the list returned by populateSteps,
\* under every policy, every available step pair of every part occurs exactly
\* once and nothing else occurs.
C1_Completeness ==
    Returned =>
        /\ \A e \in Available(build_parts) : Occurrences(global_layers, e) = 1
        /\ \A pos \in Positions(global_layers) :
              EntryAt(global_layers, pos) \in Available(build_parts)

\* C1 witness: a returned ByHeight schedule of several layers over two or more
\* parts that holds three step pairs.
C1_Witness ==
    /\ Returned
    /\ order_method = "kByHeight"
    /\ Len(build_parts) >= 2
    /\ Len(global_layers) >= 2
    /\ Cardinality(Positions(global_layers)) >= 3

\* C2: per-part order preservation.  Reading the returned layers in order,
\* the step indices of one part strictly increase: of two step pairs of the
\* same part, the one with the smaller index is in the earlier layer.
C2_PartOrder ==
    Returned =>
        \A p, q \in Positions(global_layers) :
            LET a == EntryAt(global_layers, p)
                b == EntryAt(global_layers, q)
            IN  (a.part = b.part /\ a.step < b.step) => p[1] < q[1]

\* C2 witness: a returned schedule in which one part has two steps, in
\* different layers.
C2_Witness ==
    /\ Returned
    /\ \E p, q \in Positions(global_layers) :
          /\ EntryAt(global_layers, p).part = EntryAt(global_layers, q).part
          /\ EntryAt(global_layers, p).step < EntryAt(global_layers, q).step
          /\ p[1] < q[1]

\* C3: one entry per part per layer in batch mode.  No addStepPair of
\* populateSteps violates its precondition, and no layer built by it holds
\* two step pairs of the same part.
C3_OneEntryPerPart ==
    /\ pc # "aborted"
    /\ \A p, q \in Positions(global_layers) :
          (p[1] = q[1] /\ EntryAt(global_layers, p).part = EntryAt(global_layers, q).part)
              => p = q

\* C3 witness: ByHeight has built a layer although the part's next step lies
\* within the grouping tolerance of the step just placed.
C3_Witness ==
    /\ pc = "byHeight"
    /\ \E p \in Positions(global_layers) :
          LET e  == EntryAt(global_layers, p)
              nx == [part |-> e.part, step |-> e.step + 1]
          IN  /\ nx \in Available(build_parts)
              /\ isEqual(DistOf(build_parts, nx), DistOf(build_parts, e),
                         layer_grouping_tolerance)
              /\ Occurrences(global_layers, nx) = 0

\* The entries of a layer, as a set.
EntrySet(layer) == {layer.step_pairs[k] : k \in 1..Len(layer.step_pairs)}

\* C4: ByLayerNumber.  The returned list has as many layers as the longest
\* part has steps, and layer i holds step i of every part that has more than
\* i steps, once each, and nothing else.
C4_ByLayerNumber ==
    (Returned /\ order_method = "kByLayerNumber") =>
        /\ \A n \in 1..Len(build_parts) :
              countStepPairs(build_parts[n]) <= Len(global_layers)
        /\ \/ Len(global_layers) = 0
           \/ \E n \in 1..Len(build_parts) :
                 countStepPairs(build_parts[n]) = Len(global_layers)
        /\ \A i \in 0..(Len(global_layers) - 1) :
              LET layer == global_layers[i + 1]
                  want  == {[part |-> build_parts[n].id, step |-> i] :
                               n \in {m \in 1..Len(build_parts) :
                                         countStepPairs(build_parts[m]) > i}}
              IN  /\ EntrySet(layer) = want
                  /\ Len(layer.step_pairs) = Cardinality(want)

\* C4 witness: ByLayerNumber has returned for parts of different lengths; the
\* last layer holds fewer step pairs than the first.
C4_Witness ==
    /\ Returned
    /\ order_method = "kByLayerNumber"
    /\ Len(global_layers) >= 2
    /\ Len(global_layers[1].step_pairs) >= 2
    /\ Len(global_layers[Len(global_layers)].step_pairs) = 1

\* The step pairs of the parts in input-list order: all of the first part's
\* steps in their own order, then the second part's, and so on.
RECURSIVE PartMajor(_, _)
PartMajor(parts, n) ==
    IF n = 0 THEN <<>>
    ELSE PartMajor(parts, n - 1) \o
         [k \in 1..countStepPairs(parts[n]) |-> [part |-> parts[n].id, step |-> k - 1]]

\* C5: ByPart.  The returned list has one layer per step pair (the sum of the
\* parts' step counts); each layer holds exactly one step pair; the layers of a
\* part form one run, the runs are in input-list order and each run is in the
\* part's own order.
C5_ByPart ==
    (Returned /\ order_method = "kByPart") =>
        LET want == PartMajor(build_parts, Len(build_parts))
        IN  /\ Len(global_layers) = Len(want)
            /\ \A k \in 1..Len(global_layers) :
                  global_layers[k].step_pairs = <<want[k]>>

\* C5 witness: ByPart has returned for two parts with steps, one of them with
\* two steps.
C5_Witness ==
    /\ Returned
    /\ order_method = "kByPart"
    /\ Len(global_layers) >= 3
    /\ \E k \in 1..(Len(global_layers) - 1) :
          global_layers[k].step_pairs[1].part # global_layers[k + 1].step_pairs[1].part
    /\ \E k \in 1..(Len(global_layers) - 1) :
          global_layers[k].step_pairs[1].part = global_layers[k + 1].step_pairs[1].part

\* ------------------------------------------------------------- ByHeight, one iteration back
\* The state right after an iteration of the ByHeight loop: the layer just
\* built is the last of global_layers, and a part's cursor was advanced exactly
\* if the part has an entry in that layer.
LastLayer == global_layers[Len(global_layers)]

JustGrouped ==
    /\ order_method = "kByHeight"
    /\ pc = "byHeight"
    /\ Len(global_layers) > 0

PartNumbers == 1..Len(build_parts)

\* The cursor of a part when that iteration began, whether the part was then
\* active, and the distance of its then current step.
PrevCursor(n) ==
    IF HasPart(LastLayer, build_parts[n].id)
    THEN current_layer[build_parts[n].id] - 1
    ELSE current_layer[build_parts[n].id]

WasActive(n) == PrevCursor(n) < countStepPairs(build_parts[n])

PrevEntry(n) == [part |-> build_parts[n].id, step |-> PrevCursor(n)]

PrevDist(n) == DistOf(build_parts, PrevEntry(n))

\* C6 as claimed: two active parts whose current steps differ by less than
\* the grouping tolerance are placed in the same GlobalLayer - when the
\* iteration places one of them, it places the other.
C6_AnyPairMerged ==
    JustGrouped =>
        \A m, n \in PartNumbers :
            (/\ WasActive(m)
             /\ WasActive(n)
             /\ Abs(PrevDist(m) - PrevDist(n)) < layer_grouping_tolerance)
            => (PrevEntry(m) \in EntrySet(LastLayer) <=> PrevEntry(n) \in EntrySet(LastLayer))

\* C6 amended: an active part whose current step lies within the grouping
\* tolerance of the minimum over the current steps of all active parts is
\* placed in the layer of that iteration, the layer of the minimum step.
C6_MergedWithMinimum ==
    JustGrouped =>
        \A n \in PartNumbers :
            (/\ WasActive(n)
             /\ \A k \in PartNumbers :
                   WasActive(k) => PrevDist(n) - PrevDist(k) <= layer_grouping_tolerance)
            => PrevEntry(n) \in EntrySet(LastLayer)

\* C6 witness: an iteration has merged two parts at different distances while
\* a third active part stayed out of the layer.
C6_Witness ==
    /\ JustGrouped
    /\ \E m, n, k \in PartNumbers :
          /\ WasActive(m) /\ WasActive(n) /\ WasActive(k)
          /\ PrevEntry(m) \in EntrySet(LastLayer)
          /\ PrevEntry(n) \in EntrySet(LastLayer)
          /\ PrevDist(m) < PrevDist(n)
          /\ PrevEntry(k) \notin EntrySet(LastLayer)

\* C7: separation.  No ByHeight layer holds two steps whose shifted-plane
\* distances differ by more than the grouping tolerance, and every step of the
\* layer just built lies within the tolerance of that iteration's minimum plane.
C7_Separation ==
    (order_method = "kByHeight" /\ pc \in {"byHeight", "done"}) =>
        /\ \A L \in 1..Len(global_layers) :
              \A a, b \in EntrySet(global_layers[L]) :
                  Abs(DistOf(build_parts, a) - DistOf(build_parts, b))
                      <= layer_grouping_tolerance
        /\ JustGrouped =>
              \A a \in EntrySet(LastLayer) :
                  /\ isEqual(ShiftedPlane(StepOf(build_parts, a)), min_plane,
                             layer_grouping_tolerance)
                  /\ \A k \in PartNumbers :
                        WasActive(k) =>
                            DistOf(build_parts, a) - PrevDist(k) <= layer_grouping_tolerance

\* C7 witness: an iteration with a positive tolerance has left out an active
\* part whose current step is farther than the tolerance from the minimum,
\* and has grouped two parts.
C7_Witness ==
    /\ JustGrouped
    /\ layer_grouping_tolerance > 0
    /\ Len(LastLayer.step_pairs) >= 2
    /\ \E k \in PartNumbers :
          /\ WasActive(k)
          /\ PrevEntry(k) \notin EntrySet(LastLayer)
          /\ PrevDist(k) - min_dist > layer_grouping_tolerance

\* ------------------------------------------------------------- scenario
\* The shifted-plane distances of the steps of part n.
Distances(n) ==
    [k \in 1..countStepPairs(build_parts[n]) |->
        PlaneDist(ShiftedPlane(build_parts[n].steps[k]))]

\* Part A (id 1) at distances 0, 1, 2 and part B (id 2) at 0, 2; tolerance 0.
IsScenario ==
    /\ Len(build_parts) = 2
    /\ build_parts[1].id = 1
    /\ build_parts[2].id = 2
    /\ Distances(1) = <<0, 1, 2>>
    /\ Distances(2) = <<0, 2>>
    /\ order_method = "kByHeight"
    /\ layer_grouping_tolerance = 0

E(id, i) == [part |-> id, step |-> i]

\* C8: the concrete ByHeight scenario.  For A at 0, 1, 2 and B at 0, 2 with
\* tolerance 0 the returned list is exactly layer 0 = {A0, B0},
\* layer 1 = {A1}, layer 2 = {A2, B1}.
C8_Scenario ==
    (Returned /\ IsScenario) =>
        /\ Len(global_layers) = 3
        /\ \A L \in 1..3 :
              /\ global_layers[L].index = L - 1
              /\ Len(global_layers[L].step_pairs) = Cardinality(EntrySet(global_layers[L]))
        /\ EntrySet(global_layers[1]) = {E(1, 0), E(2, 0)}
        /\ EntrySet(global_layers[2]) = {E(1, 1)}
        /\ EntrySet(global_layers[3]) = {E(1, 2), E(2, 1)}

\* C8 witness: populateSteps has returned for the scenario's input.
C8_Witness == Returned /\ IsScenario

\* ------------------------------------------------------------- permutations
ListOrders(n) ==
    {f \in [1..n -> 1..n] : \A i, j \in 1..n : f[i] = f[j] => i = j}

Permuted(parts, f) == [k \in 1..Len(parts) |-> parts[f[k]]]

\* The groups of a schedule: the sets of step pairs that share a layer.
Groups(layers) == {EntrySet(layers[L]) : L \in 1..Len(layers)}

\* C9: permutation invariance of ByHeight.  The groups of the schedule
\* returned for build_parts are the groups of the schedule ByHeight builds for
\* any permutation of build_parts.
C9_PermutationInvariant ==
    (Returned /\ order_method = "kByHeight") =>
        \A f \in ListOrders(Len(build_parts)) :
            Groups(populateStepsByHeight(Permuted(build_parts, f),
                                         layer_grouping_tolerance))
                = Groups(global_layers)

\* C9 witness: ByHeight has returned several groups, one of them of two
\* parts, for three parts whose first steps lie at three different distances.
C9_Witness ==
    /\ Returned
    /\ order_method = "kByHeight"
    /\ Len(build_parts) = 3
    /\ Cardinality(Groups(global_layers)) >= 2
    /\ \E L \in 1..Len(global_layers) : Len(global_layers[L].step_pairs) = 2
    /\ \A n \in PartNumbers : countStepPairs(build_parts[n]) > 0
    /\ Cardinality({Distances(n)[1] : n \in PartNumbers}) = 3

\* ------------------------------------------------------------- termination
\* C10: ByHeight terminates.  A call that has entered the ByHeight loop
\* returns; and in every iteration with an active part the part that produced
\* the minimum plane is added to the new layer, its cursor advanced by one.
C10_Terminates ==
    /\ (pc = "byHeight") ~> (pc = "done")
    /\ [](JustGrouped =>
            ((\E n \in PartNumbers : WasActive(n)) =>
                /\ part_with_min_plane # NullId
                /\ E(part_with_min_plane, current_layer[part_with_min_plane] - 1)
                      \in EntrySet(LastLayer)))

\* C10 witness: the loop has returned after three iterations.
C10_Witness ==
    /\ Returned
    /\ order_method = "kByHeight"
    /\ Len(global_layers) = 3
    /\ part_with_min_plane # NullId

\* ------------------------------------------------------------- incremental mode
\* The dirty step pairs of the parts: [part |-> id, step |-> i], i dirty.
DirtyPairs(parts) ==
    UNION {{[part |-> parts[n].id, step |-> i] : i \in parts[n].dirty} : n \in 1..Len(parts)}

StepReturned == pc = "stepDone"

C12_StepOneEntryPerPart ==
    /\ pc # "aborted"
    /\ \A j, k \in 1..Len(new_g_layer.step_pairs) :
          new_g_layer.step_pairs[j].part = new_g_layer.step_pairs[k].part => j = k

\* What the code does instead: the call fails exactly if some part has two or
\* more dirty step pairs, its second addStepPair finding the part's entry.
C12_FailsOnTwoDirty ==
    /\ pc = "aborted" => \E n \in PartNumbers : Cardinality(build_parts[n].dirty) >= 2
    /\ StepReturned => \A n \in PartNumbers : Cardinality(build_parts[n].dirty) <= 1

\* C12 witness: populateStep has failed for a part with two dirty step pairs.
C12_Witness ==
    /\ pc = "aborted"
    /\ \E n \in PartNumbers : Cardinality(build_parts[n].dirty) = 2

\* ------------------------------------------------------------- failure semantics
\* C13: an unsupported policy fails fast.  With an order method that is none
\* of ByHeight, ByLayerNumber, ByPart, populateSteps creates no GlobalLayer and
\* never returns a schedule to the caller.
C13_FailsFast ==
    order_method = kInvalid =>
        /\ global_layers = <<>>
        /\ ~Returned

\* What the code guarantees for an unsupported policy in every build: no
\* GlobalLayer is created, and the call either ends in the assertion or
\* returns the empty list.
C13_NoLayerCreated ==
    order_method = kInvalid =>
        /\ global_layers = <<>>
        /\ pc \in {"fatal", "done"}

\* C13 witness: the assertion has ended a call for parts that have steps.
C13_Witness ==
    /\ order_method = kInvalid
    /\ pc = "fatal"
    /\ TotalSteps(build_parts) >= 2

\* No part has a step: zero parts, or parts that all have zero steps.
Degenerate == TotalSteps(build_parts) = 0

\* C14: degenerate input is not an error.  Under each of the three policies a
\* call for zero parts, or for parts without steps, fails no assertion and no
\* precondition, leaves its loop (ByHeight after one pass, the others at
\* once) and returns a schedule without step pairs.
C14_Degenerate ==
    (Degenerate /\ order_method \in OrderMethods) =>
        /\ pc \notin {"aborted", "fatal"}
        /\ Positions(global_layers) = {}
        /\ (pc = "byHeight" /\ Len(global_layers) > 0) => ~steps_left
        /\ pc = "byLayerNumber" => ~(step < max_steps)
        /\ pc = "byPart" => ~(s < s_max)

\* C14 witness: ByHeight has returned for two parts without steps.
C14_Witness ==
    /\ Returned
    /\ Degenerate
    /\ order_method = "kByHeight"
    /\ Len(build_parts) = 2

\* ------------------------------------------------------------- sequence indices
\* C15: sequence indices.  Under every policy the GlobalLayer at position k
\* of the list (counting from 0) was constructed with sequence index k, while
\* the list is built and when it is returned.
C15_SequenceIndices ==
    order_method \in OrderMethods =>
        \A k \in 1..Len(global_layers) : global_layers[k].index = k - 1

\* C15 witness: ByPart has returned three layers for two parts, the second
\* part's first step in the last layer.
C15_Witness ==
    /\ Returned
    /\ order_method = "kByPart"
    /\ Len(build_parts) = 2
    /\ Len(global_layers) = 3
    /\ global_layers[3].step_pairs = <<E(build_parts[2].id, 0)>>

\* ------------------------------------------------------------- successive calls
\* The call that has returned had the settings and the parts of the call
\* before it.
SameCallAsPrevious ==
    /\ Returned
    /\ previous.method = order_method
    /\ previous.tolerance = layer_grouping_tolerance
    /\ previous.parts = build_parts

\* C16: statelessness.  Of two successive calls of populateSteps with the
\* same settings and the same unmodified parts, the second returns the
\* schedule the first returned: the same layers, indices and membership.
C16_Stateless ==
    SameCallAsPrevious => global_layers = previous.layers

\* C16 witness: a second ByHeight call with the settings and parts of the
\* first has returned several layers.
C16_Witness ==
    /\ SameCallAsPrevious
    /\ order_method = "kByHeight"
    /\ Len(global_layers) >= 2

\* ------------------------------------------------------------- inputs are read only
\* The step sequences of the parts.
StepSequences(parts) == [n \in 1..Len(parts) |-> parts[n].steps]

\* C17: read-only on inputs.  No step of a call of populateSteps, from its
\* entry to the caller taking the result, changes the step sequence of a part:
\* the count and the step pair at each index stay what they were.
C17_ReadOnly ==
    [][(pc # "idle" \/ pc' # "idle") =>
          StepSequences(build_parts') = StepSequences(build_parts)]_vars

\* C17 witness: ByLayerNumber has returned a schedule of three step pairs of
\* two parts.
C17_Witness ==
    /\ Returned
    /\ order_method = "kByLayerNumber"
    /\ Len(build_parts) = 2
    /\ Cardinality(Positions(global_layers)) = 3

\* ------------------------------------------------------------- ByHeight, empty candidate set
\* C18: ByHeight creates no layer for an empty candidate set.  Every
\* GlobalLayer of a ByHeight schedule holds at least one step pair, and for
\* zero parts or parts without steps the returned list is empty.
C18_NoEmptyLayer ==
    (order_method = "kByHeight" /\ pc \in {"byHeight", "done"}) =>
        /\ \A L \in 1..Len(global_layers) : Len(global_layers[L].step_pairs) >= 1
        /\ (Returned /\ Degenerate) => global_layers = <<>>

\* What the code does instead: the loop body runs once before steps_left is
\* first computed, so for zero parts or parts without steps the returned list
\* is one GlobalLayer of index 0 without step pairs; wherever some part has a
\* step, every layer holds at least one step pair.
C18_OneEmptyLayerIfDegenerate ==
    (order_method = "kByHeight" /\ pc \in {"byHeight", "done"}) =>
        /\ ~Degenerate =>
              \A L \in 1..Len(global_layers) : Len(global_layers[L].step_pairs) >= 1
        /\ (Returned /\ Degenerate) => global_layers = <<NewGlobalLayer(0)>>

\* C18 witness: ByHeight has returned for zero parts.
C18_Witness ==
    /\ Returned
    /\ order_method = "kByHeight"
    /\ build_parts = <<>>
    /\ Len(global_layers) = 1

\* ------------------------------------------------------------- ByHeight, minimum search
\* The position in build_parts of the part found by the minimum search.
MinPartNumber == CHOOSE n \in PartNumbers : build_parts[n].id = part_with_min_plane

\* C19: the minimum search.  After an iteration that began with an active
\* part, part_with_min_plane is a part that was active, min_plane and min_dist
\* are the shifted plane of its then current step and its distance, no active
\* part was at a smaller distance, and every active part before it in the
\* list was at a greater distance.
C19_MinimumSearch ==
    (JustGrouped /\ \E n \in PartNumbers : WasActive(n)) =>
        /\ \E n \in PartNumbers : build_parts[n].id = part_with_min_plane
        /\ WasActive(MinPartNumber)
        /\ min_plane = ShiftedPlane(StepOf(build_parts, PrevEntry(MinPartNumber)))
        /\ min_dist = PrevDist(MinPartNumber)
        /\ \A k \in PartNumbers : WasActive(k) => min_dist <= PrevDist(k)
        /\ \A k \in 1..(MinPartNumber - 1) : WasActive(k) => min_dist < PrevDist(k)

\* C19 witness: the second and the third part were tied at the minimum, the
\* first part was active at a greater distance, and the search has kept the
\* second.
C19_Witness ==
    /\ JustGrouped
    /\ Len(build_parts) = 3
    /\ \A n \in PartNumbers : WasActive(n)
    /\ PrevDist(2) = PrevDist(3)
    /\ PrevDist(1) > PrevDist(2)
    /\ part_with_min_plane = build_parts[2].id

\* ------------------------------------------------------------- ByHeight, tolerance boundary
\* C20: the tolerance boundary is inclusive.  An active part whose current
\* shifted-plane distance differs from the minimum of the iteration by exactly
\* the grouping tolerance is placed in the layer of that iteration, with the
\* part of the minimum; with tolerance 0 this is the parts at the distance of
\* the minimum.
C20_InclusiveBoundary ==
    (JustGrouped /\ \E n \in PartNumbers : WasActive(n)) =>
        /\ E(part_with_min_plane, current_layer[part_with_min_plane] - 1)
              \in EntrySet(LastLayer)
        /\ \A n \in PartNumbers :
              (WasActive(n) /\ PrevDist(n) - min_dist = layer_grouping_tolerance)
                  => PrevEntry(n) \in EntrySet(LastLayer)

\* C20 witness: with a positive tolerance, a part whose current step lay at
\* exactly the tolerance above the minimum is in the layer just built.
C20_Witness ==
    /\ JustGrouped
    /\ layer_grouping_tolerance > 0
    /\ \E n \in PartNumbers :
          /\ WasActive(n)
          /\ PrevDist(n) - min_dist = layer_grouping_tolerance
          /\ PrevEntry(n) \in EntrySet(LastLayer)

\* ------------------------------------------------------------- ByHeight, height order
\* Within every part the shifted-plane distances do not decrease with the
\* step index.
Ascending(parts) ==
    \A n \in 1..Len(parts) :
        \A i, j \in 1..countStepPairs(parts[n]) :
            i <= j => PlaneDist(ShiftedPlane(parts[n].steps[i]))
                          <= PlaneDist(ShiftedPlane(parts[n].steps[j]))

\* The least shifted-plane distance among the steps of a layer that holds one.
LayerMin(layer) ==
    CHOOSE d \in {DistOf(build_parts, e) : e \in EntrySet(layer)} :
        \A e \in EntrySet(layer) : d <= DistOf(build_parts, e)

\* C21: global height order.  If the distances of every part's steps do not
\* decrease with the step index, the minimum distances of successive ByHeight
\* layers do not decrease: no layer is scheduled below one already emitted.
C21_HeightOrder ==
    (order_method = "kByHeight" /\ pc \in {"byHeight", "done"}
        /\ ~Degenerate /\ Ascending(build_parts)) =>
        \A L \in 1..(Len(global_layers) - 1) :
            LayerMin(global_layers[L]) <= LayerMin(global_layers[L + 1])

\* C21 witness: for ascending parts ByHeight has returned a first layer of two
\* parts and a later layer strictly above it.
C21_Witness ==
    /\ Returned
    /\ order_method = "kByHeight"
    /\ Ascending(build_parts)
    /\ Len(global_layers) >= 2
    /\ Len(global_layers[1].step_pairs) = 2
    /\ LayerMin(global_layers[1]) < LayerMin(global_layers[2])

\* ------------------------------------------------------------- ByHeight, cursors
\* C22: the cursor invariant.  Throughout the ByHeight loop every part's
\* cursor lies between 0 and the part's step count, every step pair taken
\* from a part was taken at an index below that count, and an iteration
\* leaves a cursor where it was or advances it by one.
C22_Cursors ==
    /\ []((order_method = "kByHeight" /\ pc \in {"byHeight", "done"}) =>
             /\ \A n \in PartNumbers :
                   /\ 0 <= current_layer[build_parts[n].id]
                   /\ current_layer[build_parts[n].id] <= countStepPairs(build_parts[n])
             /\ \A pos \in Positions(global_layers) :
                   EntryAt(global_layers, pos) \in Available(build_parts))
    /\ [][(pc = "byHeight") =>
             \A n \in PartNumbers :
                 current_layer'[build_parts[n].id] - current_layer[build_parts[n].id]
                     \in {0, 1}]_vars

\* C22 witness: in the loop, one part's cursor has reached its step count
\* while another part's cursor is past its first step and short of its count.
C22_Witness ==
    /\ pc = "byHeight"
    /\ \E m, n \in PartNumbers :
          /\ countStepPairs(build_parts[m]) > 0
          /\ current_layer[build_parts[m].id] = countStepPairs(build_parts[m])
          /\ 0 < current_layer[build_parts[n].id]
          /\ current_layer[build_parts[n].id] < countStepPairs(build_parts[n])

\* ------------------------------------------------------------- ByHeight and ByLayerNumber
\* For every step index, the parts that have a step of that index have it at
\* the same shifted-plane distance.
Aligned(parts) ==
    \A m, n \in 1..Len(parts) :
        \A i \in 1..countStepPairs(parts[m]) :
            i <= countStepPairs(parts[n]) =>
                PlaneDist(ShiftedPlane(parts[m].steps[i]))
                    = PlaneDist(ShiftedPlane(parts[n].steps[i]))

\* populateSteps with order_method = kByLayerNumber as a function of its
\* input (source lines 146-167).
populateStepsByLayerNumber(parts) ==
    [k \in 1..MaxSteps(parts, Len(parts)) |->
        ZipLoop(parts, [layer |-> NewGlobalLayer(k - 1), ok |-> TRUE], k - 1,
                Len(parts)).layer]

\* C23: ByHeight agrees with ByLayerNumber on aligned parts.  For aligned
\* parts and any tolerance, ByHeight returns the list ByLayerNumber returns:
\* as many layers, with the same step pairs at each index.
C23_AgreesWithLayerNumber ==
    (Returned /\ order_method = "kByHeight" /\ Aligned(build_parts)) =>
        global_layers = populateStepsByLayerNumber(build_parts)

\* What the code guarantees: the agreement holds wherever some part has a
\* step; for zero parts or parts without steps ByHeight returns one layer
\* without step pairs where ByLayerNumber returns the empty list.
C23_AgreesUnlessDegenerate ==
    (Returned /\ order_method = "kByHeight" /\ Aligned(build_parts)) =>
        IF Degenerate
        THEN /\ populateStepsByLayerNumber(build_parts) = <<>>
             /\ global_layers = <<NewGlobalLayer(0)>>
        ELSE global_layers = populateStepsByLayerNumber(build_parts)

\* C23 witness: ByHeight has returned for two aligned parts whose common
\* distances go down from the first step to the second.
C23_Witness ==
    /\ Returned
    /\ order_method = "kByHeight"
    /\ Aligned(build_parts)
    /\ Len(build_parts) = 2
    /\ countStepPairs(build_parts[1]) = 2
    /\ countStepPairs(build_parts[2]) = 1
    /\ Distances(1)[2] < Distances(1)[1]

\* ------------------------------------------------------------- a single part
\* The schedule of a single part: one layer per step, layer i holding step i.
OneLayerPerStep(part) ==
    [k \in 1..countStepPairs(part) |->
        addStepPair(NewGlobalLayer(k - 1), part.id, k - 1)]

\* C24: single-part equivalence.  For one part with one or more steps the
\* three policies return the same list, whatever the planes and the
\* tolerance: one layer per step, layer i holding exactly step i.
C24_SinglePart ==
    (Returned /\ order_method \in OrderMethods /\ Len(build_parts) = 1
        /\ countStepPairs(build_parts[1]) >= 1) =>
        global_layers = OneLayerPerStep(build_parts[1])

\* C24 witness: ByHeight has returned for a single part whose three steps lie
\* within the tolerance of each other, the later ones not above the earlier.
C24_Witness ==
    /\ Returned
    /\ order_method = "kByHeight"
    /\ Len(build_parts) = 1
    /\ countStepPairs(build_parts[1]) = 3
    /\ layer_grouping_tolerance > 0
    /\ Distances(1)[2] <= Distances(1)[1]
    /\ Distances(1)[3] <= Distances(1)[2]
    /\ Distances(1)[1] - Distances(1)[3] <= layer_grouping_tolerance

\* ------------------------------------------------------------- ByHeight, number of layers
\* C25: layer-count bounds.  Where some part has a step, ByHeight never
\* builds more layers than there are step pairs, and it returns at least as
\* many layers as the longest part has step pairs.
C25_LayerCount ==
    (order_method = "kByHeight" /\ ~Degenerate) =>
        /\ pc \in {"byHeight", "done"} => Len(global_layers) <= TotalSteps(build_parts)
        /\ Returned => Len(global_layers) >= MaxSteps(build_parts, Len(build_parts))

\* C25 witness: ByHeight has returned as many layers as the longest part has
\* steps, fewer than there are step pairs.
C25_Witness ==
    /\ Returned
    /\ order_method = "kByHeight"
    /\ Len(global_layers) = MaxSteps(build_parts, Len(build_parts))
    /\ Len(global_layers) >= 2
    /\ Len(global_layers) < TotalSteps(build_parts)

\* ------------------------------------------------------------- appends during a call
\* C26: robustness to concurrent append.  If the producer appends steps to
\* parts while a call of populateSteps is running, each read of a part being
\* atomic, then under every policy no addStepPair fails and the returned
\* schedule holds every step pair that was available at the entry of the
\* call, holds no step pair twice, holds at most one step pair of a part in a
\* layer, and keeps each part's steps in their order.
C26_ConcurrentAppend ==
    /\ pc # "aborted"
    /\ Returned =>
          /\ \A e \in Available(call_parts) : Occurrences(global_layers, e) = 1
          /\ \A p, q \in Positions(global_layers) :
                LET a == EntryAt(global_layers, p)
                    b == EntryAt(global_layers, q)
                IN  /\ a = b => p = q
                    /\ (a.part = b.part /\ p[1] = q[1]) => p = q
                    /\ (a.part = b.part /\ a.step < b.step) => p[1] < q[1]

\* C26 witness: ByHeight has returned a schedule that holds a step pair
\* appended during the call, and misses another one appended during the call.
C26_Witness ==
    /\ Returned
    /\ order_method = "kByHeight"
    /\ TotalSteps(call_parts) >= 1
    /\ \E pos \in Positions(global_layers) :
          EntryAt(global_layers, pos) \notin Available(call_parts)
    /\ \E e \in Available(build_parts) : Occurrences(global_layers, e) = 0

\* A step appended after a minimum search that saw no active part has been
\* placed in the layer of that iteration.
LatePartGrouped ==
    /\ pc = "h_group"
    /\ part_with_min_plane = NullId
    /\ Len(layer_under_construction.step_pairs) > 0

\* The command of a button action: the last one the communicator received.
LastCommand(c) == c.commands[Len(c.commands)]

\* The line a slot appends to the log itself, after its command.
OwnLine(command) ==
    IF command = "M140 S60" THEN <<"Starting print...">>
    ELSE IF command = "M112" THEN <<"Stopping print...">>
    ELSE <<>>

\* C27: each button action (moveX, moveY, moveZ, homePrinter, startPrint,
\* stopPrint) sends exactly one command to the communicator, which emits
\* exactly one printerResponse for it, "Printer executed command: " followed by
\* the command; the response is in the log when the action is over, and for
\* startPrint and stopPrint it stands before the line "Starting print..." or
\* "Stopping print..." that the action appends.
C27_CommandThenResponse ==
    [][(communicator' # communicator \/ widget'.m_logDisplay # widget.m_logDisplay) =>
           /\ Len(communicator'.commands) = Len(communicator.commands) + 1
           /\ LET command  == LastCommand(communicator')
                  response == "Printer executed command: " \o command
              IN  /\ communicator'.commands = Append(communicator.commands, command)
                  /\ communicator'.responses = Append(communicator.responses, response)
                  /\ widget'.m_logDisplay =
                         widget.m_logDisplay \o <<response>> \o OwnLine(command)
      ]_vars

\* A move with a typed value and a stop have been logged: each response in
\* its place, the response of the stop before "Stopping print...".
C27_Witness ==
    /\ communicator.commands = <<"G1 X10", "M112">>
    /\ widget.m_logDisplay = <<"Printer executed command: G1 X10",
                               "Printer executed command: M112",
                               "Stopping print...">>

\* The signals of one kind that run() has emitted, in order.
SignalsOf(kind) == SelectSeq(loader.signals, LAMBDA sig : sig.signal = kind)

\* C28: MeshLoader::run signals one kind of outcome.  When run() has returned
\* and LoadMeshes gave the empty list (as it does for a path that does not
\* exist and for a null scene), error was emitted exactly once and newMesh
\* never; otherwise newMesh was emitted exactly once for each loaded mesh, in
\* the order of the list, and error never.  At no time have both kinds been
\* emitted.
C28_OneOutcomeKind ==
    /\ SignalsOf("error") = <<>> \/ SignalsOf("newMesh") = <<>>
    /\ loader.pc = "finished" =>
           /\ (~loader.file.exists \/ loader.file.scene.null) => loader.meshes = <<>>
           /\ IF loader.meshes = <<>>
              THEN /\ Len(SignalsOf("error")) = 1
                   /\ Len(loader.signals) = 1
              ELSE /\ Len(loader.signals) = Len(loader.meshes)
                   /\ \A i \in 1..Len(loader.meshes) :
                          /\ loader.signals[i].signal = "newMesh"
                          /\ loader.signals[i].data = loader.meshes[i]

\* run() has returned after loading two meshes, each signalled once, in order.
C28_Witness ==
    /\ loader.pc = "finished"
    /\ Len(loader.meshes) = 2
    /\ loader.signals = <<newMesh(loader.meshes[1]), newMesh(loader.meshes[2])>>
    /\ loader.meshes[1] # loader.meshes[2]

====
